---- MODULE Spec2Model ----
(***************************************************************************)
(* Model of download_ip_ranges.py: main() collects IPv4 range tokens from  *)
(* the JSON sources and the DigiCert text file, removes duplicate tokens,  *)
(* and consolidate_networks() parses, sorts and merges them in one forward *)
(* pass; main() then writes the surviving blocks one per line.             *)
(*                                                                         *)
(* Addresses are unsigned integers of AddrBits bits (32 in the ipaddress   *)
(* library); every formula below is independent of the width.  A token is  *)
(* a record describing the text of a string:                               *)
(*   form  "quad" (dotted decimal), "word" (other text), "v6" (has a ':')  *)
(*   host  the value the dotted decimal text denotes; a value above        *)
(*         ALL_ONES stands for a text with an octet out of range           *)
(*   slash whether the token has a "/"                                     *)
(*   mask  the decimal number after the "/" (meaningful when slash)        *)
(*   trail whether the token ends in white space                           *)
(***************************************************************************)
EXTENDS Integers, Sequences, FiniteSets, TLC

\* ------------------------------------------------------------------ bounds
AddrBits == 2
MaxBatch == 3

\* --------------------------------------------------------------- utilities
RECURSIVE Pow2(_)
Pow2(n) == IF n <= 0 THEN 1 ELSE 2 * Pow2(n - 1)

Min(a, b) == IF a <= b THEN a ELSE b
Max(a, b) == IF a >= b THEN a ELSE b

Range(s) == {s[k] : k \in DOMAIN s}

ALL_ONES == Pow2(AddrBits) - 1

\* int.bit_length()
RECURSIVE bit_length(_)
bit_length(n) == IF n <= 0 THEN 0 ELSE 1 + bit_length(n \div 2)

\* ------------------------------------------------------------------ tokens
Hosts == 0 .. ALL_ONES
Masks == 0 .. AddrBits

Tok(f, h, s, m, t) == [form |-> f, host |-> h, slash |-> s, mask |-> m, trail |-> t]

\* "a.b.c.d/n", host bits set or not
CidrTokens == {Tok("quad", h, TRUE, m, FALSE) : h \in Hosts, m \in Masks}
\* "a.b.c.d"
BareTokens == {Tok("quad", h, FALSE, 0, FALSE) : h \in Hosts}
\* "not-an-ip", an IPv6 prefix, an octet out of range, a prefix length out of
\* range, and two tokens that end in white space
OddTokens  == { Tok("word", 0, FALSE, 0, FALSE),
                Tok("v6", 0, TRUE, AddrBits, FALSE),
                Tok("quad", ALL_ONES + 1, TRUE, AddrBits, FALSE),
                Tok("quad", 0, TRUE, AddrBits + 1, FALSE),
                Tok("quad", ALL_ONES, FALSE, 0, TRUE),
                Tok("quad", 0, TRUE, AddrBits, TRUE) }
Tokens == CidrTokens \cup BareTokens \cup OddTokens

\* ---------------------------------------------------------------- networks
Net(a, p) == [network_address |-> a, prefixlen |-> p]
NoNet == Net(-1, -1)

hostmask(net) == Pow2(AddrBits - net.prefixlen) - 1
broadcast_address(net) == net.network_address + hostmask(net)

\* mutant: the containment test compares the last addresses only
supernet_of_bcast(a, b) ==
    broadcast_address(a) >= broadcast_address(b)

\* mutant: the containment test is strict, a block is no supernet of itself
supernet_of_strict(a, b) ==
    /\ a.network_address <= b.network_address
    /\ broadcast_address(a) >= broadcast_address(b)
    /\ a # b

\* a.supernet_of(b) is b._is_subnet_of(a); it holds when a = b
supernet_of(a, b) ==
    /\ a.network_address <= b.network_address
    /\ broadcast_address(a) >= broadcast_address(b)

\* mutant: the host bits of the address are kept
IPv4Network_keepbits(tok) ==
    IF \/ tok.form # "quad"
       \/ tok.host > ALL_ONES
       \/ tok.trail
       \/ ~tok.slash
       \/ tok.mask > AddrBits
    THEN NoNet
    ELSE Net(tok.host, tok.mask)

\* ipaddress.IPv4Network(text, strict=False) on the text of a token: the
\* result is NoNet when the constructor raises AddressValueError or
\* NetmaskValueError (both are ValueError), else the block with the host
\* bits of the address cleared.
IPv4Network(tok) ==
    IF \/ tok.form # "quad"
       \/ tok.host > ALL_ONES
       \/ tok.trail
       \/ ~tok.slash
       \/ tok.mask > AddrBits
    THEN NoNet
    ELSE Net(tok.host - (tok.host % Pow2(AddrBits - tok.mask)), tok.mask)

\* str.strip() removes trailing white space
strip(tok) == [tok EXCEPT !.trail = FALSE]

\* lines 86-88: "/32" is appended to a token without "/", and only then is
\* the text stripped, so white space that ended the token is now in the
\* middle of the text, right before the "/"
ParseToken(tok) ==
    IF tok.slash
    THEN IPv4Network(strip(tok))
    ELSE IPv4Network([tok EXCEPT !.slash = TRUE, !.mask = AddrBits])

\* mutant: the first token that raises ends the loop
RECURSIVE ParseLoop_abort(_)
ParseLoop_abort(ip_list) ==
    IF ip_list = <<>> THEN <<>>
    ELSE LET network == ParseToken(Head(ip_list))
         IN  IF network = NoNet
             THEN <<>>
             ELSE <<network>> \o ParseLoop_abort(Tail(ip_list))

\* lines 82-92: the loop over ip_list; a token that raises is reported and
\* skipped
RECURSIVE ParseLoop(_)
ParseLoop(ip_list) ==
    IF ip_list = <<>> THEN <<>>
    ELSE LET network == ParseToken(Head(ip_list))
         IN  IF network = NoNet
             THEN ParseLoop(Tail(ip_list))
             ELSE <<network>> \o ParseLoop(Tail(ip_list))

\* list.sort(key=lambda x: x.network_address): stable, ascending.
\* Insert places x behind every element whose key is not larger.
RECURSIVE Insert(_, _)
Insert(sorted, x) ==
    IF sorted = <<>> THEN <<x>>
    ELSE IF Head(sorted).network_address <= x.network_address
         THEN <<Head(sorted)>> \o Insert(Tail(sorted), x)
         ELSE <<x>> \o sorted

\* mutant: the list is left in input order
SortNetworks_unsorted(nets) == nets

RECURSIVE SortNetworks(_)
SortNetworks(nets) ==
    IF nets = <<>> THEN <<>>
    ELSE Insert(SortNetworks(SubSeq(nets, 1, Len(nets) - 1)), nets[Len(nets)])

\* ipaddress._count_righthand_zero_bits(number, bits)
RECURSIVE TrailingZeros(_)
TrailingZeros(n) == IF n % 2 = 1 THEN 0 ELSE 1 + TrailingZeros(n \div 2)

count_righthand_zero_bits(number, bits) ==
    IF number = 0 THEN bits ELSE Min(bits, TrailingZeros(number))

\* ipaddress.summarize_address_range(first, last), first <= last
RECURSIVE summarize_address_range(_, _)
summarize_address_range(first, last) ==
    IF first > last THEN <<>>
    ELSE LET nbits == Min(count_righthand_zero_bits(first, AddrBits),
                          bit_length(last - first + 1) - 1)
             net   == Net(first, AddrBits - nbits)
             nxt   == first + Pow2(nbits)
         IN  IF nxt - 1 = ALL_ONES
             THEN <<net>>
             ELSE <<net>> \o summarize_address_range(nxt, last)

\* mutant: blocks that touch count as overlapping
Overlaps_adjacent(current, next_net) ==
    /\ current.network_address <= broadcast_address(next_net) + 1
    /\ next_net.network_address <= broadcast_address(current) + 1

\* lines 111-112
Overlaps(current, next_net) ==
    /\ current.network_address <= broadcast_address(next_net)
    /\ next_net.network_address <= broadcast_address(current)

\* lines 105-133: one iteration of the merge loop.  st holds current and
\* consolidated; the result also names the branch that was taken.
MergeBody(st, next_net) ==
    IF supernet_of(st.current, next_net)
    THEN [current |-> st.current, consolidated |-> st.consolidated,
          branch |-> "contained"]
    ELSE IF supernet_of(next_net, st.current)
    THEN [current |-> next_net, consolidated |-> st.consolidated,
          branch |-> "replaced"]
    ELSE IF Overlaps(st.current, next_net)
    THEN LET first_ip == Min(st.current.network_address, next_net.network_address)
             last_ip  == Max(broadcast_address(st.current), broadcast_address(next_net))
             supernet_list == summarize_address_range(first_ip, last_ip)
         IN  IF Len(supernet_list) = 1
             THEN [current |-> supernet_list[1], consolidated |-> st.consolidated,
                   branch |-> "overlap"]
             ELSE [current |-> next_net,
                   consolidated |-> Append(st.consolidated, st.current),
                   branch |-> "overlap"]
    ELSE [current |-> next_net,
          consolidated |-> Append(st.consolidated, st.current),
          branch |-> "disjoint"]

\* lines 102-133 as a fold over networks[1:]
RECURSIVE MergeLoop(_, _)
MergeLoop(st, rest) ==
    IF rest = <<>> THEN st
    ELSE MergeLoop(MergeBody(st, Head(rest)), Tail(rest))

\* lines 79-138: the function as a whole
consolidate_networks(ip_list) ==
    LET nets == SortNetworks(ParseLoop(ip_list))
    IN  IF nets = <<>> THEN <<>>
        ELSE LET st == MergeLoop([current |-> nets[1], consolidated |-> <<>>,
                                  branch |-> "none"], Tail(nets))
             IN  Append(st.consolidated, st.current)

\* mutant: the address is written without its prefix length
Format_bare(network) ==
    Tok("quad", network.network_address, FALSE, 0, FALSE)

\* f"{network}": the text "a.b.c.d/n" of a block
Format(network) ==
    Tok("quad", network.network_address, TRUE, network.prefixlen, FALSE)

FormatAll(nets) == [k \in DOMAIN nets |-> Format(nets[k])]

\* ------------------------------------------------------------------- state
VARIABLES
    pc,            \* position in main / consolidate_networks
    all_ips,       \* main: the collected tokens; after line 236 the argument
    networks,      \* consolidate_networks: parsed (then sorted) blocks
    idx,           \* index in networks of the next next_net
    current,       \* consolidate_networks: current
    consolidated,  \* consolidate_networks: consolidated
    taken,         \* the branches of the merge loop taken so far
    written        \* the lines written to the output file

vars == <<pc, all_ips, networks, idx, current, consolidated, taken, written>>

Init ==
    /\ pc = "json"
    /\ all_ips = <<>>
    /\ networks = <<>>
    /\ idx = 0
    /\ current = NoNet
    /\ consolidated = <<>>
    /\ taken = {}
    /\ written = <<>>

\* lines 30-62, 206, 216, 226: a token of a JSON source is appended unless
\* it contains ":"
ExtendJson ==
    /\ pc = "json"
    /\ Len(all_ips) < MaxBatch
    /\ \E ip \in Tokens :
          all_ips' = IF ip.form = "v6" THEN all_ips ELSE Append(all_ips, ip)
    /\ UNCHANGED <<pc, networks, idx, current, consolidated, taken, written>>

\* lines 228-230: the JSON sources are done, the DigiCert file is read next
StartDigicert ==
    /\ pc = "json"
    /\ pc' = "digicert"
    /\ UNCHANGED <<all_ips, networks, idx, current, consolidated, taken, written>>

\* lines 65-76, 232: a line of the file is stripped and appended unless it
\* contains ":" (an empty line is not a token of the model)
ExtendDigicert ==
    /\ pc = "digicert"
    /\ Len(all_ips) < MaxBatch
    /\ \E line \in Tokens :
          LET subnet == strip(line)
          IN  all_ips' = IF subnet.form = "v6" THEN all_ips
                         ELSE Append(all_ips, subnet)
    /\ UNCHANGED <<pc, networks, idx, current, consolidated, taken, written>>

\* line 236: list(set(all_ips)); the order of the result is unspecified
RemoveDuplicates ==
    /\ pc = "digicert"
    /\ LET S == Range(all_ips)
       IN  \E l \in [1 .. Cardinality(S) -> S] :
              /\ Range(l) = S
              /\ all_ips' = l
    /\ pc' = "parse"
    /\ UNCHANGED <<networks, idx, current, consolidated, taken, written>>

\* lines 82-92
Parse ==
    /\ pc = "parse"
    /\ networks' = ParseLoop(all_ips)
    /\ pc' = "sort"
    /\ UNCHANGED <<all_ips, idx, current, consolidated, taken, written>>

\* lines 95-102: sort, then return [] at once or start the pass
Sort ==
    /\ pc = "sort"
    /\ networks' = SortNetworks(networks)
    /\ consolidated' = <<>>
    /\ IF networks' = <<>>
       THEN /\ pc' = "write"
            /\ UNCHANGED <<idx, current>>
       ELSE /\ pc' = "merge"
            /\ current' = networks'[1]
            /\ idx' = 2
    /\ UNCHANGED <<all_ips, taken, written>>

\* lines 103-133: one iteration
MergeStep ==
    /\ pc = "merge"
    /\ idx <= Len(networks)
    /\ LET r == MergeBody([current |-> current, consolidated |-> consolidated,
                           branch |-> "none"], networks[idx])
       IN  /\ current' = r.current
           /\ consolidated' = r.consolidated
           /\ taken' = taken \cup {r.branch}
    /\ idx' = idx + 1
    /\ UNCHANGED <<pc, all_ips, networks, written>>

\* lines 135-138
AppendLast ==
    /\ pc = "merge"
    /\ idx > Len(networks)
    /\ consolidated' = Append(consolidated, current)
    /\ pc' = "write"
    /\ UNCHANGED <<all_ips, networks, idx, current, taken, written>>

\* lines 245-247
WriteOutput ==
    /\ pc = "write"
    /\ written' = FormatAll(consolidated)
    /\ pc' = "done"
    /\ UNCHANGED <<all_ips, networks, idx, current, consolidated, taken>>

Next ==
    \/ ExtendJson
    \/ StartDigicert
    \/ ExtendDigicert
    \/ RemoveDuplicates
    \/ Parse
    \/ Sort
    \/ MergeStep
    \/ AppendLast
    \/ WriteOutput

Spec == Init /\ [][Next]_vars

\* ------------------------------------------------- vocabulary of the claims
Done == pc = "done"

IsValid(tok) == ParseToken(tok) # NoNet

\* the blocks the valid tokens of a batch normalize to
ValidNets(toks) == {ParseToken(toks[k]) : k \in DOMAIN toks} \ {NoNet}

Addrs(net) == net.network_address .. broadcast_address(net)
Cover(S) == UNION {Addrs(n) : n \in S}

Contains(a, b) == Addrs(b) \subseteq Addrs(a)
Canonical(net) == net.network_address % Pow2(AddrBits - net.prefixlen) = 0

Perms(s) ==
    {[k \in DOMAIN s |-> s[f[k]]] :
        f \in {g \in [DOMAIN s -> DOMAIN s] : Range(g) = DOMAIN s}}

PairwiseDisjoint(S) ==
    \A a, b \in S : a # b => Addrs(a) \cap Addrs(b) = {}

\* the elements of a set of blocks in ascending order of start address
RECURSIVE Ascending(_)
Ascending(S) ==
    IF S = {} THEN <<>>
    ELSE LET lo == CHOOSE n \in S :
                     \A m \in S : n.network_address <= m.network_address
         IN  <<lo>> \o Ascending(S \ {lo})

Maximal(S) ==
    {n \in S : ~ \E m \in S : Contains(m, n) /\ ~Contains(n, m)}

HasHostBits(tok) ==
    /\ tok.form = "quad" /\ tok.slash /\ ~tok.trail
    /\ tok.host <= ALL_ONES /\ tok.mask <= AddrBits
    /\ tok.host % Pow2(AddrBits - tok.mask) # 0

\* ------------------------------------------------------------------ claims

\* C1: the addresses covered by the output of consolidate_networks are
\* exactly the addresses covered by the blocks of the valid input tokens.
C1_CoverPreserved ==
    Done => Cover(Range(consolidated)) = Cover(ValidNets(all_ips))

C1_Witness ==
    /\ Done
    /\ {"replaced", "disjoint"} \subseteq taken
    /\ Len(consolidated) = 2

\* C2: no two elements at different positions of the output are equal or
\* have one containing the other.
C2_NoContainment ==
    Done => \A i, j \in DOMAIN consolidated :
                i # j => ~Contains(consolidated[i], consolidated[j])

\* "1.2.3.4" and "1.2.3.4/32" yield the one block 1.2.3.4/32
C2_Witness ==
    /\ Done
    /\ Range(all_ips) = { Tok("quad", ALL_ONES, FALSE, 0, FALSE),
                          Tok("quad", ALL_ONES, TRUE, AddrBits, FALSE) }
    /\ consolidated = <<Net(ALL_ONES, AddrBits)>>

C4_OrderIndependent ==
    Done => \A p \in Perms(all_ips) : consolidate_networks(p) = consolidated

\* blocks with the same start and different prefix lengths, the smaller first
C4_Witness ==
    /\ Done
    /\ Len(networks) = 3
    /\ \E i, j \in DOMAIN networks :
          /\ i < j
          /\ networks[i].network_address = networks[j].network_address
          /\ networks[i].prefixlen > networks[j].prefixlen

\* C5: the written lines, fed back in as tokens, give the same output.
C5_Idempotent ==
    Done => consolidate_networks(written) = consolidated

C5_Witness ==
    /\ Done
    /\ Len(consolidated) = 2
    /\ Len(all_ips) = 3
    /\ \E k \in DOMAIN consolidated : consolidated[k].prefixlen < AddrBits

\* C6: the output is the output on the batch without its malformed tokens,
\* and it is empty exactly when no token of the batch is valid.
C6_MalformedSkipped ==
    Done => /\ consolidated = consolidate_networks(SelectSeq(all_ips, IsValid))
            /\ (consolidated = <<>>) <=> (\A k \in DOMAIN all_ips : ~IsValid(all_ips[k]))

C6_Witness ==
    /\ Done
    /\ Len(all_ips) = 3
    /\ ~IsValid(all_ips[1])
    /\ IsValid(all_ips[2]) /\ IsValid(all_ips[3])
    /\ Len(consolidated) = 2

\* C7: every block that enters the merge pass and every block of the output
\* has no host bit set.
C7_Canonical ==
    \A n \in Range(networks) \cup Range(consolidated) : Canonical(n)

C7_Witness ==
    /\ Done
    /\ \E k \in DOMAIN all_ips :
          /\ HasHostBits(all_ips[k])
          /\ ParseToken(all_ips[k]) \in Range(consolidated)

\* C8: the partial-overlap branch of the merge loop is never taken: when
\* current and next_net intersect, one of them is a supernet of the other.
C8_OverlapUnreachable ==
    /\ "overlap" \notin taken
    /\ (pc = "merge" /\ idx <= Len(networks) /\ Overlaps(current, networks[idx]))
          => \/ supernet_of(current, networks[idx])
             \/ supernet_of(networks[idx], current)

C8_Witness ==
    /\ pc = "merge"
    /\ idx <= Len(networks)
    /\ Overlaps(current, networks[idx])
    /\ "replaced" \in taken

\* C9: the output is in ascending order of start address at every step of
\* the pass, every emitted block starts below current, and main writes the
\* blocks in that order.
C9_Ascending ==
    /\ \A i, j \in DOMAIN consolidated :
          i < j => consolidated[i].network_address < consolidated[j].network_address
    /\ pc = "merge" =>
          \A i \in DOMAIN consolidated :
             consolidated[i].network_address < current.network_address
    /\ Done => /\ Len(written) = Len(consolidated)
               /\ \A k \in DOMAIN written : written[k] = Format(consolidated[k])

\* current was replaced by a later block that contains it, after a block
\* had been emitted
C9_Witness ==
    /\ Done
    /\ Len(networks) = 3
    /\ networks[2].network_address = networks[3].network_address
    /\ networks[3].prefixlen < networks[2].prefixlen
    /\ consolidated = <<networks[1], networks[3]>>

====
